---- MODULE Spec2Model ----
(***************************************************************************)
(* Reconnect controllers of node-red-contrib-stream-client.                *)
(*                                                                         *)
(* The repository holds six near-duplicate variants of one Node-RED node:  *)
(*   sc1  stream-client.js lines 1-143   (timer handle + reconnecting flag)*)
(*   sc2  stream-client.js lines 145-288 (timers not stored, rl 'close')   *)
(*   p0   unnamed/part_000               (timers not stored)               *)
(*   p1   unnamed/part_001               (cleanupStream, stored timer)     *)
(*   p2   unnamed/part_002               (timers not stored, no guard in   *)
(*                                        reconnect)                       *)
(*   p3   unnamed/part_003               (exponential backoff, no stopped) *)
(* Every variant is a set of callbacks run to completion by the Node.js    *)
(* event loop.  One action of the model is one callback, with every call   *)
(* it makes.  The callbacks are written as functions from a state record   *)
(* to a state record, so that nested calls (timer -> connect -> catch ->   *)
(* safeReconnect -> setTimeout) compose as they do in the code.            *)
(*                                                                         *)
(* The environment (got, readline, timers, Node-RED) is nondeterministic:  *)
(* a stream delivers its loss events ('end', 'error', ...) in any order,   *)
(* several for one failure, and also after it was destroyed, as the        *)
(* handlers of the variants themselves expect (they test stopped);         *)
(* got.stream either returns a stream or throws synchronously, as the      *)
(* try/catch around it expects.                                            *)
(*                                                                         *)
(* Besides the reconnect controller of each variant (SpecSc1, SpecSc2,     *)
(* SpecP0 .. SpecP3) there are specifications of one attempt, in which the *)
(* stream of the first connect() delivers every sequence of lines or       *)
(* chunks (SpecSc1Lines, SpecSc2Lines, SpecP2Lines, SpecP3Chunks), and of  *)
(* the building of the request for every configuration (SpecSc1Headers,    *)
(* SpecP3Url).  Strings that the code parses (reconnectDelay, lines,       *)
(* chunks) are sequences of characters, and trim, parseInt and JSON.parse  *)
(* work on them character by character.                                    *)
(***************************************************************************)
EXTENDS Integers, FiniteSets, Sequences, TLC

----------------------------------------------------------------------------
(* Bounds of the model *)

\* streams that got.stream can hand out in one run; past it got.stream throws
MaxStreams == 3
\* timer slots: setTimeout beyond it is not explored
MaxTimers == 2
\* loss events ('end', 'error', ...) delivered in one run by streams that are
\* no longer live: a second handler for one failure, an event after destroy()
MaxExtra == 2

\* parameters in the query of the base URL
MaxPairs == 2

\* lines (or chunks) one attempt's stream delivers
MaxLines == 3

----------------------------------------------------------------------------
(* Program state *)

VARIABLES
  config,          \* the node's configuration, fixed at construction
  started,         \* the constructor has made its first connect()/startStream()
  stopped,         \* let stopped
  stream,          \* let stream: 0 is null, else the id of a stream object
  rl,              \* let rl: 0 is null, else the readline over stream rl
  reconnectTimer,  \* let reconnectTimer / reconnectTimeout: 0 null, 1 a handle
  reconnecting,    \* let reconnecting (sc1)
  reconnectDelay,  \* let reconnectDelay (p3)
  streams,         \* the stream objects got.stream has returned
  timers,          \* the event loop's pending timers
  closed,          \* the node's 'close' handler has run
  calls,           \* got.stream calls made by the last callback
  armed,           \* delay of the timer armed by the last callback, 0 if none
  last,            \* the last callback that ran
  servedLoss,      \* the last callback was the loss event that ended a live
                   \* stream which had delivered a record
  fault,           \* an exception escaped a callback
  extras,          \* loss events delivered so far by streams no longer live
  lossPending,     \* a connection loss was seen and got.stream not called since
  failArmed,       \* p3: delay armed last, since the last 'response' (0: none)
  body,            \* what the stream delivered in this attempt, in order: the
                   \* lines readline cut (rl 'line') or the chunks ('data')
  sent,            \* the payloads handed to node.send in this attempt
  log,             \* the diagnostics (node.warn, node.error) of the response
                   \* and line handlers and of the building of the request
  status,          \* statusCode of the attempt's response, 0 before it
  request          \* what the last build of the request produced

vars == <<config, started, stopped, stream, rl, reconnectTimer, reconnecting,
          reconnectDelay, streams, timers, closed, calls, armed, last,
          servedLoss, fault,
          extras, lossPending, failArmed, body, sent, log, status, request>>

StreamIds == 1..MaxStreams

\* what config.url can be: undefined, "", a non-empty string that is no
\* absolute URL, or a usable absolute URL
UrlKinds == {"absent", "empty", "invalid", "valid"}

\* a JavaScript string is the sequence of its characters; "nbsp" stands for
\* the one character U+00A0
chars5000 == <<"5", "0", "0", "0">>

\* a configuration property: undefined, or the string the editor stored
undefined == [t |-> "undefined", s |-> <<>>]

Str(s) == [t |-> "string", s |-> s]

\* the lines a body can hold: empty, white space only (JSON's, and one that
\* only trim() takes for white space), integers bare and padded, text that is
\* no JSON, and an integer behind white space that JSON does not accept
LineInputs ==
  {<<>>, <<" ">>, <<"nbsp">>, <<"1">>, <<" ", "2", " ">>, <<"1", "2">>,
   <<"x">>, <<"1", " ", "2">>, <<"nbsp", "1">>}

\* the status codes a response can carry: success, a client error, a server
\* error (got follows the redirects of a 3xx itself)
StatusInputs == {200, 404, 503}

\* the chunks a 'data' event can carry: one or two bytes of text, spaces and
\* line feeds
Bytes == {"a", " ", "\n"}

ChunkInputs == {<<b>> : b \in Bytes} \cup {<<b, c>> : b \in Bytes, c \in Bytes}

\* a query parameter, an entry of the extra-params object
Pair(k, v) == [k |-> k, v |-> v]

\* the queries a valid base URL can carry: up to MaxPairs parameters, a key
\* twice included
QueryInputs ==
  UNION {[1..n -> {Pair(k, v) : k \in {"a", "b"}, v \in {"1", "2"}}] :
           n \in 0..MaxPairs}

\* Object.entries of the object config.params decodes to: distinct keys
ExtraParamInputs ==
  LET entries == {Pair(k, v) : k \in {"a", "b"}, v \in {"3", "4"}}
  IN {<<>>} \cup {<<x>> : x \in entries}
       \cup {p \in entries \X entries : p[1].k # p[2].k}

\* a configuration string that is only tested and decoded as a whole
Text(s) == [t |-> "string", s |-> s]

\* what config.token can be
TokenInputs == {undefined, Text(""), Text("t1"), Text("t2")}

\* a decoded JSON document: its type and, for an object or an array, its own
\* enumerable properties in order (an array's are its indices)
Json(type, entries) == [type |-> type, entries |-> entries]

\* JSON.parse of the texts config.headers can hold: objects, an array, null,
\* a string, a number, a boolean, and texts that are no JSON
HeaderDocs ==
  [s \in {"{}", "{\"X-A\":\"1\"}", "{\"X-A\":\"1\",\"X-B\":\"2\"}",
          "{\"Authorization\":\"Basic x\"}", "[]", "[\"v\"]", "null",
          "\"text\"", "5", "true", "{\"X-A\":", "X-A: 1", "{'X-A':'1'}"} |->
     CASE s = "{}" -> Json("object", <<>>)
       [] s = "{\"X-A\":\"1\"}" -> Json("object", <<Pair("X-A", <<"1">>)>>)
       [] s = "{\"X-A\":\"1\",\"X-B\":\"2\"}" ->
            Json("object", <<Pair("X-A", <<"1">>), Pair("X-B", <<"2">>)>>)
       [] s = "{\"Authorization\":\"Basic x\"}" ->
            Json("object", <<Pair("Authorization", <<"Basic x">>)>>)
       [] s = "[]" -> Json("array", <<>>)
       [] s = "[\"v\"]" -> Json("array", <<Pair("0", <<"v">>)>>)
       [] s = "null" -> Json("null", <<>>)
       [] s = "\"text\"" -> Json("string", <<>>)
       [] s = "5" -> Json("number", <<>>)
       [] s = "true" -> Json("boolean", <<>>)
       [] OTHER -> Json("SyntaxError", <<>>)]

\* what config.headers can be
HeaderInputs == {undefined, Text("")} \cup {Text(s) : s \in DOMAIN HeaderDocs}

\* what config.reconnectDelay can be: absent, empty, an integer of at least
\* 1000, the floor itself, integers below it, zero, a negative integer, text
\* without digits, digits followed by text
DelayInputs ==
  {undefined, Str(<<>>), Str(<<"3", "0", "0", "0">>), Str(<<"1", "0", "0", "0">>),
   Str(<<"5", "0", "0">>), Str(<<"0">>), Str(<<"-", "5">>),
   Str(<<"a", "b", "c">>), Str(<<"1", "2", "p", "x">>),
   Str(<<"1", "5", "0", "0", "m", "s">>)}

\* a stream object: st is none (not created), live, lost (it ended or
\* errored) or destroyed (destroy() while live); resp: 'response' was
\* delivered; data: a record was sent downstream; rl: the readline over it
NoStream == [st |-> "none", resp |-> FALSE, data |-> FALSE, rl |-> "none"]

NewStream == [st |-> "live", resp |-> FALSE, data |-> FALSE, rl |-> "none"]

\* the state as one record; ovf marks a callback the bounds cannot hold
State ==
  [config |-> config, started |-> started, stopped |-> stopped,
   stream |-> stream, rl |-> rl, reconnectTimer |-> reconnectTimer,
   reconnecting |-> reconnecting, reconnectDelay |-> reconnectDelay,
   streams |-> streams, timers |-> timers, closed |-> closed,
   calls |-> 0, armed |-> 0, last |-> last, servedLoss |-> FALSE,
   fault |-> fault,
   extras |-> extras, lossPending |-> lossPending, failArmed |-> failArmed,
   body |-> body, sent |-> sent, log |-> log, status |-> status,
   request |-> request, ovf |-> FALSE]

Commit(r) ==
  /\ ~r.ovf
  /\ config' = r.config
  /\ started' = r.started
  /\ stopped' = r.stopped
  /\ stream' = r.stream
  /\ rl' = r.rl
  /\ reconnectTimer' = r.reconnectTimer
  /\ reconnecting' = r.reconnecting
  /\ reconnectDelay' = r.reconnectDelay
  /\ streams' = r.streams
  /\ timers' = r.timers
  /\ closed' = r.closed
  /\ calls' = r.calls
  /\ armed' = r.armed
  /\ last' = r.last
  /\ servedLoss' = r.servedLoss
  /\ fault' = r.fault
  /\ extras' = r.extras
  /\ lossPending' = r.lossPending
  /\ failArmed' = r.failArmed
  /\ body' = r.body
  /\ sent' = r.sent
  /\ log' = r.log
  /\ status' = r.status
  /\ request' = r.request

\* callback op begins: State resets the per-callback observations
Begin(op) == [State EXCEPT !.last = op]

\* no request was built yet
NoRequest == [built |-> FALSE]

\* the state after construction, before the first connect()/startStream(),
\* for a configuration of the set configs
InitWith(configs, delay0) ==
  /\ config \in configs
  /\ started = FALSE
  /\ stopped = FALSE
  /\ stream = 0
  /\ rl = 0
  /\ reconnectTimer = 0
  /\ reconnecting = FALSE
  /\ reconnectDelay = delay0
  /\ streams = [s \in StreamIds |-> NoStream]
  /\ timers = <<>>
  /\ closed = FALSE
  /\ calls = 0
  /\ armed = 0
  /\ last = "none"
  /\ servedLoss = FALSE
  /\ fault = FALSE
  /\ extras = 0
  /\ lossPending = FALSE
  /\ failArmed = 0
  /\ body = <<>>
  /\ sent = <<>>
  /\ log = <<>>
  /\ status = 0
  /\ request = NoRequest

InitCommon(urls, delays, params, delay0) ==
  InitWith([url : urls, reconnectDelay : delays, params : params], delay0)

----------------------------------------------------------------------------
(* Environment: timers, got streams, readline *)

\* the pending timers, in the order they were armed: the delay each was armed
\* with, and whether the handle variable (reconnectTimer / reconnectTimeout)
\* names it.  A handle that names a timer which fired or was cleared is
\* still non-null: reconnectTimer = 1 with no held timer pending.
Timer(d, held) == [delay |-> d, held |-> held]

Remove(q, i) == [j \in 1..(Len(q) - 1) |-> IF j < i THEN q[j] ELSE q[j + 1]]

Unheld(q) == [j \in 1..Len(q) |-> Timer(q[j].delay, FALSE)]

\* setTimeout(cb, d); keep: the returned handle is stored in the handle variable
setTimeout(r, d, keep) ==
  IF Len(r.timers) >= MaxTimers THEN [r EXCEPT !.ovf = TRUE]
  ELSE IF keep
       THEN [r EXCEPT !.timers = Append(Unheld(@), Timer(d, TRUE)),
                      !.reconnectTimer = 1, !.armed = d]
       ELSE [r EXCEPT !.timers = Append(@, Timer(d, FALSE)), !.armed = d]

\* clearTimeout(h) of the handle variable's value h: cancels the timer it
\* names when that is pending, else (null, fired, cleared) does nothing
clearTimeout(r, h) ==
  IF h = 0 THEN r
  ELSE [r EXCEPT !.timers = SelectSeq(@, LAMBDA x : ~x.held)]

\* the event loop takes pending timer i to run its callback
fire(r, i) == [r EXCEPT !.timers = Remove(@, i)]

PendingTimers == 1..Len(timers)

Min(S) == CHOOSE x \in S : \A y \in S : x <= y

FreeStreams(r) == {s \in StreamIds : r.streams[s].st = "none"}

NextStream(r) == IF FreeStreams(r) = {} THEN 0 ELSE Min(FreeStreams(r))

\* what a got.stream call can do: return a stream, or throw synchronously
GotOutcomes(r) == IF NextStream(r) = 0 THEN {"throw"} ELSE {"ok", "throw"}

\* stream.destroy()
destroy(r, s) ==
  IF s # 0 /\ r.streams[s].st = "live"
  THEN [r EXCEPT !.streams[s].st = "destroyed", !.streams[s].resp = FALSE,
                 !.streams[s].data = FALSE]
  ELSE r

\* a loss event ('end', 'error', request or response 'error') of stream s is
\* delivered to its handlers: the stream is no longer live.  No handler reads
\* resp or data of a stream that is not live, so they are not kept.
lose(r, s) ==
  IF r.streams[s].st = "live"
  THEN [r EXCEPT !.streams[s].st = "lost", !.streams[s].resp = FALSE,
                 !.streams[s].data = FALSE]
  ELSE [r EXCEPT !.extras = @ + 1]

\* stream s can deliver a loss event: it exists, live or not (an event can be
\* delivered after destroy(), and one failure can fire several handlers)
CanLose(s) ==
  \/ streams[s].st = "live"
  \/ streams[s].st \in {"lost", "destroyed"} /\ extras < MaxExtra

\* the stream can still produce a response and data
Healthy(s) == streams[s].st = "live"

LiveStreams == {s \in StreamIds : streams[s].st = "live"}

\* rl.close() of a readline no handler of the node listens to for 'close'
closeRl(r, s) ==
  IF s # 0 /\ r.streams[s].rl = "open"
  THEN [r EXCEPT !.streams[s].rl = "closed"]
  ELSE r

\* the callback made a got.stream call
called(r) == [r EXCEPT !.calls = @ + 1, !.lossPending = FALSE]

\* got.stream returned: stream (and rl, when the variant reads lines with
\* readline) name the new stream object
open(r, withRl) ==
  [called(r) EXCEPT
     !.stream = NextStream(r),
     !.rl = IF withRl THEN NextStream(r) ELSE @,
     !.streams[NextStream(r)] =
        [NewStream EXCEPT !.rl = IF withRl THEN "open" ELSE "none"]]

\* config.url.trim() of an undefined url: a TypeError outside any try
buildUrlThrows(c) == c.url = "absent"

----------------------------------------------------------------------------
(* JavaScript built-ins the variants call *)

\* the white space String.prototype.trim and parseInt skip, JSON's included
WhiteSpace == {" ", "\n", "nbsp"}

\* the white space JSON.parse accepts around a value
JSONWhiteSpace == {" ", "\n"}

RECURSIVE trimStart(_)
trimStart(s) ==
  IF s # <<>> /\ Head(s) \in WhiteSpace THEN trimStart(Tail(s)) ELSE s

RECURSIVE trimEnd(_)
trimEnd(s) ==
  IF s # <<>> /\ s[Len(s)] \in WhiteSpace
  THEN trimEnd(SubSeq(s, 1, Len(s) - 1))
  ELSE s

\* String.prototype.trim
trim(s) == trimEnd(trimStart(s))

digitValue ==
  [c \in {"0", "1", "2", "3", "4", "5", "6", "7", "8", "9"} |->
     CASE c = "0" -> 0 [] c = "1" -> 1 [] c = "2" -> 2 [] c = "3" -> 3
       [] c = "4" -> 4 [] c = "5" -> 5 [] c = "6" -> 6 [] c = "7" -> 7
       [] c = "8" -> 8 [] c = "9" -> 9]

Digits == DOMAIN digitValue

\* the longest prefix of s made of decimal digits
RECURSIVE digitPrefix(_)
digitPrefix(s) ==
  IF s # <<>> /\ Head(s) \in Digits
  THEN <<Head(s)>> \o digitPrefix(Tail(s))
  ELSE <<>>

\* the number a sequence of decimal digits denotes
RECURSIVE decimal(_)
decimal(ds) ==
  IF ds = <<>> THEN 0
  ELSE decimal(SubSeq(ds, 1, Len(ds) - 1)) * 10 + digitValue[ds[Len(ds)]]

\* a JavaScript number: NaN, or an integer
NaN == [nan |-> TRUE, n |-> 0]

Num(n) == [nan |-> FALSE, n |-> n]

\* ToString (the string conversion) of a configuration property
toString(v) ==
  IF v.t = "undefined"
  THEN <<"u", "n", "d", "e", "f", "i", "n", "e", "d">>
  ELSE v.s

\* ToBoolean of a configuration property
truthy(v) == v.t = "string" /\ v.s # <<>>

truthyText(v) == v.t = "string" /\ v.s # ""

\* Object.assign(target, source) with the own enumerable properties of source
RECURSIVE ObjectAssign(_, _)
ObjectAssign(target, entries) ==
  IF entries = <<>> THEN target
  ELSE ObjectAssign(
         [k \in DOMAIN target \cup {Head(entries).k} |->
            IF k = Head(entries).k THEN Head(entries).v ELSE target[k]],
         Tail(entries))

\* parseInt(s, 10): leading white space, a sign, then the digits up to the
\* first character that is none; NaN when there is no digit
parseInt(s) ==
  LET t == trimStart(s)
      signed == t # <<>> /\ Head(t) \in {"+", "-"}
      ds == digitPrefix(IF signed THEN Tail(t) ELSE t)
  IN IF ds = <<>> THEN NaN
     ELSE IF signed /\ Head(t) = "-" THEN Num(0 - decimal(ds))
     ELSE Num(decimal(ds))

\* JSON.parse of a line of the inputs: an integer literal with JSON white
\* space around it decodes to its value, every other text is a SyntaxError
JSONparse(s) ==
  LET t == IF s # <<>> /\ Head(s) \in JSONWhiteSpace THEN Tail(s) ELSE s
      u == IF t # <<>> /\ t[Len(t)] \in JSONWhiteSpace
           THEN SubSeq(t, 1, Len(t) - 1) ELSE t
      minus == u # <<>> /\ Head(u) = "-"
      ds == IF minus THEN Tail(u) ELSE u
  IN IF ds # <<>> /\ digitPrefix(ds) = ds /\ (Len(ds) > 1 => Head(ds) # "0")
     THEN [ok |-> TRUE, value |-> IF minus THEN 0 - decimal(ds) ELSE decimal(ds)]
     ELSE [ok |-> FALSE, value |-> 0]

\* node.send({ payload })
send(r, payload) == [r EXCEPT !.sent = Append(@, payload)]

\* node.warn(text), node.error(text)
warn(r, text) == [r EXCEPT !.log = Append(@, [level |-> "warn", text |-> text])]

error(r, text) == [r EXCEPT !.log = Append(@, [level |-> "error", text |-> text])]

\* readline emits 'line' with the next line of the body
deliver(r, line) ==
  IF Len(r.body) >= MaxLines THEN [r EXCEPT !.ovf = TRUE]
  ELSE [r EXCEPT !.body = Append(@, line)]

\* the delay a timer runs with: setTimeout takes 1 ms for an argument that is
\* NaN or below 1 (the inputs stay below its upper limit 2^31 - 1)
timeoutAfter(x) == IF x.nan \/ x.n < 1 THEN 1 ELSE x.n

\* parseInt(config.reconnectDelay || '5000', 10)
parseDelay(v) == parseInt(IF truthy(v) THEN v.s ELSE chars5000)

\* const delay = parseInt(config.reconnectDelay || '5000', 10), as the
\* setTimeout(..., delay) that follows it takes it, for every configuration
reconnectAfter == [v \in DelayInputs |-> timeoutAfter(parseDelay(v))]

----------------------------------------------------------------------------
(* sc1: stream-client.js lines 1-143 *)

\* buildUrl() returns null: (config.url || '').trim() is empty
sc1_noUrl(c) == c.url \in {"absent", "empty"}

\* a safeReconnect that does not test the flag
sc1_safeReconnect_noFlagTest(r) ==
  IF r.stopped THEN r
  ELSE setTimeout([r EXCEPT !.reconnecting = TRUE],
                  reconnectAfter[r.config.reconnectDelay], TRUE)

\* if (stopped || reconnecting) return; reconnecting = true;
\* reconnectTimer = setTimeout(..., delay)
sc1_safeReconnect(r) ==
  IF r.stopped \/ r.reconnecting THEN r
  ELSE setTimeout([r EXCEPT !.reconnecting = TRUE],
                  reconnectAfter[r.config.reconnectDelay], TRUE)

sc1_connect(r, oc) ==
  IF r.stopped THEN r
  ELSE IF sc1_noUrl(r.config) THEN r
  ELSE IF oc = "throw" THEN sc1_safeReconnect(called(r))
  ELSE open(r, TRUE)

\* a timer callback that forgets to lower the flag
sc1_onTimer_flagStuck(r, oc) == sc1_connect(r, oc)

\* the callback of the reconnect timer
sc1_onTimer(r, oc) == sc1_connect([r EXCEPT !.reconnecting = FALSE], oc)

\* a close handler that leaves the reconnect timer armed
sc1_onClose_noClear(r) ==
  destroy(closeRl([r EXCEPT !.stopped = TRUE, !.closed = TRUE], r.rl),
          r.stream)

\* node.on('close')
sc1_onClose(r) ==
  destroy(closeRl(clearTimeout([r EXCEPT !.stopped = TRUE, !.closed = TRUE],
                               r.reconnectTimer),
                  r.rl),
          r.stream)

\* a loss event of s reaches a handler of the node
sc1_lose(r, s) == [lose(r, s) EXCEPT !.lossPending = TRUE]

sc1_Start ==
  /\ ~started
  /\ \E oc \in GotOutcomes(State) :
       Commit(sc1_connect([Begin("start") EXCEPT !.started = TRUE], oc))

sc1_TimerFire ==
  /\ started
  /\ \E t \in PendingTimers : \E oc \in GotOutcomes(State) :
       Commit(sc1_onTimer(fire(Begin("timer"), t), oc))

\* stream.on('response'): attaches res.on('error')
sc1_Response ==
  \E s \in StreamIds :
    /\ Healthy(s) /\ ~streams[s].resp /\ config.url = "valid"
    /\ Commit([Begin("response") EXCEPT !.streams[s].resp = TRUE])

\* rl.on('line') with a line that parses: node.send
sc1_Line ==
  \E s \in StreamIds :
    /\ Healthy(s) /\ streams[s].resp /\ streams[s].rl = "open"
    /\ ~streams[s].data
    /\ Commit([Begin("line") EXCEPT !.streams[s].data = TRUE])

\* stream.on('end'); readline's own 'end' listener closes the interface
sc1_End ==
  \E s \in StreamIds :
    /\ CanLose(s)
    /\ Commit(sc1_safeReconnect(closeRl(sc1_lose(Begin("end"), s), s)))

\* stream.on('error'), req.on('error'), res.on('error')
sc1_Error ==
  \E s \in StreamIds : \E ev \in {"error", "reqError", "resError"} :
    /\ CanLose(s)
    /\ ev = "resError" => streams[s].resp
    /\ Commit(sc1_safeReconnect(sc1_lose(Begin("error"), s)))

sc1_Close == started /\ Commit(sc1_onClose(Begin("close")))

\* headers['Authorization'] = `Bearer ${config.token}` when a token is set
sc1_tokenHeaders(c) ==
  IF truthyText(c.token)
  THEN ObjectAssign(<<>>, <<Pair("Authorization", <<"Bearer", c.token.s>>)>>)
  ELSE <<>>

\* buildHeaders(): the headers it returns, and r with its diagnostics
sc1_buildHeaders(r) ==
  IF ~truthyText(r.config.headers)
  THEN [r EXCEPT !.request = [built |-> TRUE,
                              headers |-> sc1_tokenHeaders(r.config)]]
  ELSE IF HeaderDocs[r.config.headers.s].type = "SyntaxError"
       THEN [warn(r, "Invalid headers JSON - skipping custom headers") EXCEPT
               !.request = [built |-> TRUE,
                            headers |-> sc1_tokenHeaders(r.config)]]
  ELSE IF HeaderDocs[r.config.headers.s].type \in {"object", "array"}
       THEN [r EXCEPT
               !.request =
                  [built |-> TRUE,
                   headers |-> ObjectAssign(sc1_tokenHeaders(r.config),
                                            HeaderDocs[r.config.headers.s].entries)]]
  ELSE [r EXCEPT !.request = [built |-> TRUE,
                              headers |-> sc1_tokenHeaders(r.config)]]

\* connect() builds the headers of the request
sc1_BuildHeaders ==
  /\ ~request.built
  /\ Commit(sc1_buildHeaders(Begin("build")))

\* a 'line' handler that gives the stream up on a line it cannot parse
sc1_onLine_reconnectOnError(r, s, line) ==
  IF trim(line) = <<>> THEN r
  ELSE IF JSONparse(line).ok
       THEN [send(r, JSONparse(line).value) EXCEPT !.streams[s].data = TRUE]
  ELSE sc1_safeReconnect(warn(r, "Invalid JSON from stream"))

\* rl.on('line')
sc1_onLine(r, s, line) ==
  IF trim(line) = <<>> THEN r
  ELSE IF JSONparse(line).ok
       THEN [send(r, JSONparse(line).value) EXCEPT !.streams[s].data = TRUE]
  ELSE warn(r, "Invalid JSON from stream")

\* readline hands the next line of the body to rl.on('line')
sc1_LineIn ==
  \E s \in StreamIds : \E line \in LineInputs :
    /\ Healthy(s) /\ streams[s].resp /\ streams[s].rl = "open"
    /\ Commit(sc1_onLine(deliver(Begin("line"), line), s, line))

sc1_Init == InitCommon(UrlKinds, {undefined}, {FALSE}, 0)

sc1_Next ==
  \/ sc1_Start
  \/ sc1_TimerFire
  \/ sc1_Response
  \/ sc1_Line
  \/ sc1_End
  \/ sc1_Error
  \/ sc1_Close

SpecSc1 == sc1_Init /\ [][sc1_Next]_vars

\* sc1 with a non-empty URL and a node that is never closed
sc1_InitUrl == InitCommon({"invalid", "valid"}, {undefined}, {FALSE}, 0)

sc1_NextOpen ==
  \/ sc1_Start
  \/ sc1_TimerFire
  \/ sc1_Response
  \/ sc1_Line
  \/ sc1_End
  \/ sc1_Error

\* one attempt of sc1: the first connect() and what its stream delivers, up
\* to the event that ends it
sc1_NextAttempt ==
  \/ sc1_Start
  \/ sc1_Response
  \/ sc1_LineIn
  \/ sc1_End
  \/ sc1_Error
  \/ sc1_Close

SpecSc1Lines == sc1_InitUrl /\ [][sc1_NextAttempt]_vars

\* the headers of sc1, for every token and every extra-headers string
sc1_InitHeaders ==
  InitWith([url : {"valid"}, reconnectDelay : {undefined}, params : {FALSE},
            token : TokenInputs, headers : HeaderInputs], 0)

SpecSc1Headers == sc1_InitHeaders /\ [][sc1_BuildHeaders]_vars

\* a pending timer eventually fires (the event loop runs every due timer)
SpecSc1Live ==
  sc1_InitUrl /\ [][sc1_NextOpen]_vars /\ WF_vars(sc1_TimerFire)

----------------------------------------------------------------------------
(* sc2: stream-client.js lines 145-288 *)

sc2_safeReconnect(r) ==
  IF r.stopped THEN r
  ELSE setTimeout(r, reconnectAfter[r.config.reconnectDelay], FALSE)

sc2_connect(r, oc) ==
  IF r.stopped THEN r
  ELSE IF buildUrlThrows(r.config) THEN [r EXCEPT !.fault = TRUE]
  ELSE IF oc = "throw"
       THEN sc2_safeReconnect(called(r))
       ELSE open(r, TRUE)

\* rl.on('close')
sc2_onRlClose(r) == IF ~r.stopped THEN sc2_safeReconnect(r) ELSE r

\* rl.close(): emits 'close' synchronously, once
sc2_rlClose(r, s) ==
  IF s # 0 /\ r.streams[s].rl = "open"
  THEN sc2_onRlClose([r EXCEPT !.streams[s].rl = "closed"])
  ELSE r

sc2_Start ==
  /\ ~started
  /\ \E oc \in GotOutcomes(State) :
       Commit(sc2_connect([Begin("start") EXCEPT !.started = TRUE], oc))

sc2_TimerFire ==
  /\ started
  /\ \E t \in PendingTimers : \E oc \in GotOutcomes(State) :
       Commit(sc2_connect(fire(Begin("timer"), t), oc))

\* stream.on('response')
sc2_Response ==
  \E s \in StreamIds :
    /\ Healthy(s) /\ ~streams[s].resp /\ config.url = "valid"
    /\ Commit([Begin("response") EXCEPT !.streams[s].resp = TRUE])

\* rl.on('line') with a line that parses
sc2_Line ==
  \E s \in StreamIds :
    /\ Healthy(s) /\ streams[s].resp /\ streams[s].rl = "open"
    /\ ~streams[s].data
    /\ Commit([Begin("line") EXCEPT !.streams[s].data = TRUE])

\* 'end' of the stream: readline's own listener (attached first, line 233)
\* closes the interface, then the node's 'end' handler runs (line 257)
sc2_End ==
  \E s \in StreamIds :
    /\ CanLose(s)
    /\ Commit(sc2_safeReconnect(sc2_rlClose(lose(Begin("end"), s), s)))

\* stream.on('error'), req.on('error'), res.on('error'), rl.on('error')
sc2_Error ==
  \E s \in StreamIds : \E ev \in {"error", "reqError", "resError", "rlError"} :
    /\ CanLose(s)
    /\ ev = "resError" => streams[s].resp
    /\ Commit(sc2_safeReconnect(lose(Begin("error"), s)))

\* node.on('close')
sc2_Close ==
  /\ started
  /\ Commit(destroy(sc2_rlClose([Begin("close") EXCEPT !.stopped = TRUE,
                                                       !.closed = TRUE], rl),
                    stream))

\* stream.on('response'): reports a status of 400 or more, attaches
\* res.on('error')
sc2_onResponse(r, s, code) ==
  IF code >= 400
  THEN error([r EXCEPT !.streams[s].resp = TRUE, !.status = code],
             "Stream HTTP error")
  ELSE [r EXCEPT !.streams[s].resp = TRUE, !.status = code]

\* the response arrives with one of the status codes; with throwHttpErrors
\* off every response is handed on, and its body flows to readline
sc2_ResponseIn ==
  \E s \in StreamIds : \E code \in StatusInputs :
    /\ Healthy(s) /\ ~streams[s].resp /\ config.url = "valid"
    /\ Commit(sc2_onResponse(Begin("response"), s, code))

\* rl.on('line')
sc2_onLine(r, s, line) ==
  IF trim(line) = <<>> THEN r
  ELSE IF JSONparse(line).ok
       THEN [send(r, JSONparse(line).value) EXCEPT !.streams[s].data = TRUE]
  ELSE warn(r, "Invalid JSON line")

\* readline hands the next line of the response's body to rl.on('line')
sc2_LineIn ==
  \E s \in StreamIds : \E line \in LineInputs :
    /\ Healthy(s) /\ streams[s].resp /\ streams[s].rl = "open"
    /\ Commit(sc2_onLine(deliver(Begin("line"), line), s, line))

sc2_Init == InitCommon({"absent", "empty", "valid"}, {undefined}, {FALSE}, 0)

sc2_Next ==
  \/ sc2_Start
  \/ sc2_TimerFire
  \/ sc2_Response
  \/ sc2_Line
  \/ sc2_End
  \/ sc2_Error
  \/ sc2_Close

SpecSc2 == sc2_Init /\ [][sc2_Next]_vars

\* one attempt of sc2: the first connect(), its response and what its stream
\* delivers, up to the event that ends it
sc2_InitUrl == InitCommon({"empty", "valid"}, {undefined}, {FALSE}, 0)

sc2_NextAttempt ==
  \/ sc2_Start
  \/ sc2_ResponseIn
  \/ sc2_LineIn
  \/ sc2_End
  \/ sc2_Error
  \/ sc2_Close

SpecSc2Lines == sc2_InitUrl /\ [][sc2_NextAttempt]_vars

----------------------------------------------------------------------------
(* p0: unnamed/part_000 *)

p0_safeReconnect(r) ==
  IF r.stopped THEN r
  ELSE setTimeout(r, reconnectAfter[r.config.reconnectDelay], FALSE)

\* connect without its first line: a reconnect timer that outlives close
p0_connect_noStoppedTest(r, oc) ==
  IF buildUrlThrows(r.config) THEN [r EXCEPT !.fault = TRUE]
  ELSE IF oc = "throw" THEN p0_safeReconnect(called(r))
  ELSE open(r, TRUE)

p0_connect(r, oc) ==
  IF r.stopped THEN r
  ELSE IF buildUrlThrows(r.config) THEN [r EXCEPT !.fault = TRUE]
  ELSE IF oc = "throw" THEN p0_safeReconnect(called(r))
  ELSE open(r, TRUE)

\* node.on('close')
p0_onClose(r) ==
  destroy(closeRl([r EXCEPT !.stopped = TRUE, !.closed = TRUE], r.rl),
          r.stream)

p0_Start ==
  /\ ~started
  /\ \E oc \in GotOutcomes(State) :
       Commit(p0_connect([Begin("start") EXCEPT !.started = TRUE], oc))

\* setTimeout(connect, delay) fires
p0_TimerFire ==
  /\ started
  /\ \E t \in PendingTimers : \E oc \in GotOutcomes(State) :
       Commit(p0_connect(fire(Begin("timer"), t), oc))

\* stream.on('response'): attaches res.on('error')
p0_Response ==
  \E s \in StreamIds :
    /\ Healthy(s) /\ ~streams[s].resp /\ config.url = "valid"
    /\ Commit([Begin("response") EXCEPT !.streams[s].resp = TRUE])

\* rl.on('line') with a line that parses: node.send
p0_Line ==
  \E s \in StreamIds :
    /\ Healthy(s) /\ streams[s].resp /\ streams[s].rl = "open"
    /\ ~streams[s].data
    /\ Commit([Begin("line") EXCEPT !.streams[s].data = TRUE])

\* stream.on('end'); readline's own 'end' listener closes the interface
p0_End ==
  \E s \in StreamIds :
    /\ CanLose(s)
    /\ Commit(p0_safeReconnect(closeRl(lose(Begin("end"), s), s)))

\* stream.on('error'), req.on('error'), res.on('error')
p0_Error ==
  \E s \in StreamIds : \E ev \in {"error", "reqError", "resError"} :
    /\ CanLose(s)
    /\ ev = "resError" => streams[s].resp
    /\ Commit(p0_safeReconnect(lose(Begin("error"), s)))

p0_Close == started /\ Commit(p0_onClose(Begin("close")))

p0_Init == InitCommon({"absent", "empty", "valid"}, {undefined}, {FALSE}, 0)

p0_Next ==
  \/ p0_Start
  \/ p0_TimerFire
  \/ p0_Response
  \/ p0_Line
  \/ p0_End
  \/ p0_Error
  \/ p0_Close

SpecP0 == p0_Init /\ [][p0_Next]_vars

----------------------------------------------------------------------------
(* p1: unnamed/part_001 *)

p1_clearReconnectTimeout(r) ==
  IF r.reconnectTimer # 0
  THEN [clearTimeout(r, r.reconnectTimer) EXCEPT !.reconnectTimer = 0]
  ELSE r

\* cleanupStream that forgets the stream without destroying it
p1_cleanupStream_noDestroy(r) ==
  p1_clearReconnectTimeout(
    [closeRl(r, r.rl) EXCEPT !.rl = 0, !.stream = 0])

\* cleanupStream that closes and destroys but keeps both references
p1_cleanupStream_keepsRefs(r) ==
  p1_clearReconnectTimeout(destroy(closeRl(r, r.rl), r.stream))

p1_cleanupStream(r) ==
  p1_clearReconnectTimeout(
    [destroy(closeRl(r, r.rl), r.stream) EXCEPT !.rl = 0, !.stream = 0])

\* a reconnect that raises a short delay to the floor
p1_delay_clamp(v) ==
  LET delay == parseInt(toString(v))
  IN IF delay.nan THEN 5000 ELSE IF delay.n < 1000 THEN 1000 ELSE delay.n

\* let delay = parseInt(config.reconnectDelay, 10);
\* if (isNaN(delay) || delay < 1000) delay = 5000
p1_delay(v) ==
  LET delay == parseInt(toString(v))
  IN IF delay.nan \/ delay.n < 1000 THEN 5000 ELSE delay.n

p1_reconnect(r) ==
  IF r.stopped THEN r
  ELSE setTimeout(p1_clearReconnectTimeout(r),
                  p1_delay(r.config.reconnectDelay), TRUE)

\* loss handlers that schedule the reconnect whatever stopped says
p1_onLoss_noStoppedTest(r) ==
  setTimeout(p1_clearReconnectTimeout(r),
             p1_delay(r.config.reconnectDelay), TRUE)

\* the body of the 'end' and 'error' handlers and of connect's catch
p1_onLoss(r) == IF ~r.stopped THEN p1_reconnect(r) ELSE p1_cleanupStream(r)

p1_connect(r, oc) ==
  IF r.stopped THEN r
  ELSE IF buildUrlThrows(r.config)
       THEN [p1_cleanupStream(r) EXCEPT !.fault = TRUE]
  ELSE IF oc = "throw" THEN p1_onLoss(called(p1_cleanupStream(r)))
  ELSE open(p1_cleanupStream(r), TRUE)

\* node.on('close')
p1_onClose(r) ==
  p1_clearReconnectTimeout(
    p1_cleanupStream([r EXCEPT !.stopped = TRUE, !.closed = TRUE]))

p1_Start ==
  /\ ~started
  /\ \E oc \in GotOutcomes(State) :
       Commit(p1_connect([Begin("start") EXCEPT !.started = TRUE], oc))

\* setTimeout(connect, delay) fires
p1_TimerFire ==
  /\ started
  /\ \E t \in PendingTimers : \E oc \in GotOutcomes(State) :
       Commit(p1_connect(fire(Begin("timer"), t), oc))

\* the response arrives (no handler of the node listens to it)
p1_Response ==
  \E s \in StreamIds :
    /\ Healthy(s) /\ ~streams[s].resp /\ config.url = "valid"
    /\ Commit([Begin("response") EXCEPT !.streams[s].resp = TRUE])

\* rl.on('line') with a line that parses: node.send
p1_Line ==
  \E s \in StreamIds :
    /\ Healthy(s) /\ streams[s].resp /\ streams[s].rl = "open"
    /\ ~streams[s].data
    /\ Commit([Begin("line") EXCEPT !.streams[s].data = TRUE])

\* stream.on('end'); readline's own 'end' listener closes the interface
p1_End ==
  \E s \in StreamIds :
    /\ CanLose(s)
    /\ Commit(p1_onLoss(closeRl(lose(Begin("end"), s), s)))

\* stream.on('error')
p1_Error ==
  \E s \in StreamIds :
    /\ CanLose(s)
    /\ Commit(p1_onLoss(lose(Begin("error"), s)))

\* the close handler runs, for the first time or again
p1_Close ==
  /\ started
  /\ Commit(p1_onClose(Begin(IF closed THEN "closeAgain" ELSE "close")))

p1_Init == InitCommon({"absent", "empty", "valid"}, DelayInputs, {FALSE}, 0)

p1_Next ==
  \/ p1_Start
  \/ p1_TimerFire
  \/ p1_Response
  \/ p1_Line
  \/ p1_End
  \/ p1_Error
  \/ p1_Close

SpecP1 == p1_Init /\ [][p1_Next]_vars

----------------------------------------------------------------------------
(* p2: unnamed/part_002 *)

p2_reconnect(r) ==
  setTimeout(r, reconnectAfter[r.config.reconnectDelay], FALSE)

p2_connect(r, oc) ==
  IF r.stopped THEN r
  ELSE IF buildUrlThrows(r.config) THEN [r EXCEPT !.fault = TRUE]
  ELSE IF oc = "throw" THEN p2_reconnect(called(r))
  ELSE open(r, TRUE)

\* the body of the 'end' and 'error' handlers
p2_onLoss(r) == IF ~r.stopped THEN p2_reconnect(r) ELSE r

\* node.on('close')
p2_onClose(r) ==
  destroy(closeRl([r EXCEPT !.stopped = TRUE, !.closed = TRUE], r.rl),
          r.stream)

\* a 'line' handler without its first line: blank lines reach the parser
p2_onLine_noBlankTest(r, s, line) ==
  IF JSONparse(line).ok
  THEN [send(r, JSONparse(line).value) EXCEPT !.streams[s].data = TRUE]
  ELSE warn(r, "Invalid JSON line")

\* rl.on('line')
p2_onLine(r, s, line) ==
  IF trim(line) = <<>> THEN r
  ELSE IF JSONparse(line).ok
       THEN [send(r, JSONparse(line).value) EXCEPT !.streams[s].data = TRUE]
  ELSE warn(r, "Invalid JSON line")

p2_Start ==
  /\ ~started
  /\ \E oc \in GotOutcomes(State) :
       Commit(p2_connect([Begin("start") EXCEPT !.started = TRUE], oc))

\* setTimeout(connect, delay) fires
p2_TimerFire ==
  /\ started
  /\ \E t \in PendingTimers : \E oc \in GotOutcomes(State) :
       Commit(p2_connect(fire(Begin("timer"), t), oc))

\* the response arrives (no handler of the node listens to it)
p2_Response ==
  \E s \in StreamIds :
    /\ Healthy(s) /\ ~streams[s].resp /\ config.url = "valid"
    /\ Commit([Begin("response") EXCEPT !.streams[s].resp = TRUE])

\* rl.on('line') with a line that parses: node.send
p2_Line ==
  \E s \in StreamIds :
    /\ Healthy(s) /\ streams[s].resp /\ streams[s].rl = "open"
    /\ ~streams[s].data
    /\ Commit([Begin("line") EXCEPT !.streams[s].data = TRUE])

\* readline hands the next line of the body to rl.on('line')
p2_LineIn ==
  \E s \in StreamIds : \E line \in LineInputs :
    /\ Healthy(s) /\ streams[s].resp /\ streams[s].rl = "open"
    /\ Commit(p2_onLine(deliver(Begin("line"), line), s, line))

\* stream.on('end'); readline's own 'end' listener closes the interface
p2_End ==
  \E s \in StreamIds :
    /\ CanLose(s)
    /\ Commit(p2_onLoss(closeRl(lose(Begin("end"), s), s)))

\* stream.on('error')
p2_Error ==
  \E s \in StreamIds :
    /\ CanLose(s)
    /\ Commit(p2_onLoss(lose(Begin("error"), s)))

p2_Close == started /\ Commit(p2_onClose(Begin("close")))

p2_Init == InitCommon({"absent", "empty", "valid"}, DelayInputs, {FALSE}, 0)

p2_Next ==
  \/ p2_Start
  \/ p2_TimerFire
  \/ p2_Response
  \/ p2_Line
  \/ p2_End
  \/ p2_Error
  \/ p2_Close

SpecP2 == p2_Init /\ [][p2_Next]_vars

\* one attempt of p2: the first connect() and what its stream delivers, up
\* to the event that ends it
p2_InitUrl == InitCommon({"empty", "valid"}, {undefined}, {FALSE}, 0)

p2_NextAttempt ==
  \/ p2_Start
  \/ p2_Response
  \/ p2_LineIn
  \/ p2_End
  \/ p2_Error
  \/ p2_Close

SpecP2Lines == p2_InitUrl /\ [][p2_NextAttempt]_vars

----------------------------------------------------------------------------
(* p3: unnamed/part_003 *)

\* let reconnectDelay = 2000, and the value 'response' resets it to
baseReconnectDelay == 2000

maxReconnectDelay == 60000

\* a backoff that doubles without the cap
p3_nextDelay_noCap(d) == d * 2

\* a backoff that starts over once the doubled delay passes the cap
p3_nextDelay_wrap(d) ==
  IF d * 2 > maxReconnectDelay THEN baseReconnectDelay ELSE d * 2

\* Math.min(reconnectDelay * 2, maxReconnectDelay)
p3_nextDelay(d) == IF d * 2 < maxReconnectDelay THEN d * 2 ELSE maxReconnectDelay

\* a stopStream that forgets the stream without destroying it
p3_stopStream_noDestroy(r) == [r EXCEPT !.stream = 0]

\* if (stream) { stream.destroy(); stream = null; }
p3_stopStream(r) ==
  IF r.stream # 0 THEN [destroy(r, r.stream) EXCEPT !.stream = 0] ELSE r

p3_scheduleReconnect(r) ==
  [setTimeout(clearTimeout(p3_stopStream(r), r.reconnectTimer),
              r.reconnectDelay, TRUE)
     EXCEPT !.failArmed = r.reconnectDelay]

\* new URL(url) of a string that is no absolute URL: a TypeError outside the try
p3_urlThrows(c) == c.params /\ c.url = "invalid"

p3_startStream(r, oc) ==
  IF r.config.url \in {"absent", "empty"} THEN r
  ELSE IF p3_urlThrows(r.config) THEN [r EXCEPT !.fault = TRUE]
  ELSE IF oc = "throw" THEN p3_scheduleReconnect(called(r))
  ELSE open(r, FALSE)

\* the callback of the reconnect timer: the statement after startStream()
\* does not run when startStream() throws
p3_onTimer(r, oc) ==
  IF p3_startStream(r, oc).fault THEN p3_startStream(r, oc)
  ELSE [p3_startStream(r, oc) EXCEPT
          !.reconnectDelay = p3_nextDelay(p3_startStream(r, oc).reconnectDelay)]

\* a 'response' handler that leaves the backoff where it is
p3_onResponse_noReset(r, s) == [r EXCEPT !.streams[s].resp = TRUE]

\* stream.on("response")
p3_onResponse(r, s) ==
  [r EXCEPT !.streams[s].resp = TRUE, !.reconnectDelay = baseReconnectDelay,
            !.failArmed = 0]

\* stream.on("error"), stream.on("end")
p3_onLoss(r) == p3_scheduleReconnect(r)

\* node.on("close")
p3_onClose(r) ==
  clearTimeout(p3_stopStream([r EXCEPT !.closed = TRUE]), r.reconnectTimer)

\* the loss event of s, and whether it ends a live stream that sent a record
p3_lose(r, s) ==
  [lose(r, s) EXCEPT
     !.servedLoss = (r.streams[s].st = "live" /\ r.streams[s].data)]

p3_Start ==
  /\ ~started
  /\ \E oc \in GotOutcomes(State) :
       Commit(p3_startStream([Begin("start") EXCEPT !.started = TRUE], oc))

p3_TimerFire ==
  /\ started
  /\ \E t \in PendingTimers : \E oc \in GotOutcomes(State) :
       Commit(p3_onTimer(fire(Begin("timer"), t), oc))

p3_Response ==
  \E s \in StreamIds :
    /\ Healthy(s) /\ ~streams[s].resp /\ config.url = "valid"
    /\ Commit(p3_onResponse(Begin("response"), s))

\* stream.on("data") with a chunk that is not blank: node.send
p3_Data ==
  \E s \in StreamIds :
    /\ Healthy(s) /\ streams[s].resp /\ ~streams[s].data
    /\ Commit([Begin("data") EXCEPT !.streams[s].data = TRUE])

p3_End ==
  \E s \in StreamIds :
    /\ CanLose(s)
    /\ Commit(p3_onLoss(p3_lose(Begin("end"), s)))

p3_Error ==
  \E s \in StreamIds :
    /\ CanLose(s)
    /\ Commit(p3_onLoss(p3_lose(Begin("error"), s)))

\* stream.on("data"): chunk.toString().trim(), sent when not empty
p3_onData(r, s, chunk) ==
  IF trim(chunk) # <<>>
  THEN [send(r, trim(chunk)) EXCEPT !.streams[s].data = TRUE]
  ELSE r

\* the stream hands the next chunk of the body to stream.on("data")
p3_DataIn ==
  \E s \in StreamIds : \E chunk \in ChunkInputs :
    /\ Healthy(s) /\ streams[s].resp
    /\ Commit(p3_onData(deliver(Begin("data"), chunk), s, chunk))

\* urlObj.searchParams.set(k, v): the first parameter named k takes the value
\* v and every other one named k is removed; without one, k=v is appended
searchParamsSet(q, k, v) ==
  IF \E i \in 1..Len(q) : q[i].k = k
  THEN LET first == CHOOSE i \in 1..Len(q) :
                      q[i].k = k /\ \A j \in 1..(i - 1) : q[j].k # k
           kept == {i \in 1..Len(q) : q[i].k # k \/ i = first}
           at(n) == CHOOSE i \in kept : Cardinality({j \in kept : j <= i}) = n
       IN [n \in 1..Cardinality(kept) |->
             IF at(n) = first THEN Pair(k, v) ELSE q[at(n)]]
  ELSE Append(q, Pair(k, v))

\* Object.entries(extraParams).forEach(([k, v]) => urlObj.searchParams.set(k, v))
RECURSIVE p3_params(_, _)
p3_params(q, entries) ==
  IF entries = <<>> THEN q
  ELSE p3_params(searchParamsSet(q, Head(entries).k, Head(entries).v),
                 Tail(entries))

\* startStream builds the request URL from the base URL and the extra params
p3_BuildUrl ==
  /\ ~request.built
  /\ Commit([Begin("build") EXCEPT
               !.request = [built |-> TRUE,
                            query |-> p3_params(config.query, config.extraParams)]])

p3_Close == started /\ Commit(p3_onClose(Begin("close")))

p3_Init == InitCommon(UrlKinds, {undefined}, BOOLEAN, baseReconnectDelay)

p3_Next ==
  \/ p3_Start
  \/ p3_TimerFire
  \/ p3_Response
  \/ p3_Data
  \/ p3_End
  \/ p3_Error
  \/ p3_Close

SpecP3 == p3_Init /\ [][p3_Next]_vars

\* one attempt of p3: the first startStream() and what its stream delivers,
\* up to the event that ends it
p3_InitUrl ==
  InitCommon({"invalid", "valid"}, {undefined}, {FALSE}, baseReconnectDelay)

p3_NextAttempt ==
  \/ p3_Start
  \/ p3_Response
  \/ p3_DataIn
  \/ p3_End
  \/ p3_Error
  \/ p3_Close

SpecP3Chunks == p3_InitUrl /\ [][p3_NextAttempt]_vars

\* the request URL of p3, for every base query and every extra-params object
p3_InitParams ==
  InitWith([url : {"valid"}, reconnectDelay : {undefined}, params : {TRUE},
            query : QueryInputs, extraParams : ExtraParamInputs],
           baseReconnectDelay)

SpecP3Url == p3_InitParams /\ [][p3_BuildUrl]_vars

----------------------------------------------------------------------------
(* Claims *)

\* the last callback got a new stream from got.stream
NewlyOpened == calls = 1 /\ armed = 0 /\ stream # 0 /\ last \in {"start", "timer"}

\* C1: in sc2 at most one stream opened by connect() is live at any instant
\* (the statement of the claim; the code breaks it)
C1_AtMostOneLive == Cardinality(LiveStreams) <= 1

\* C2: in p3, once the close handler has run no callback calls got.stream
\* (the statement of the claim; the code breaks it)
C2_NoOpenAfterClose == closed => calls = 0

\* C3: in p1, whenever connect() has created a new stream, every stream
\* created before it is no longer live, every earlier readline is closed and
\* no reconnect timer is pending; so at most one stream is live at any time
C3_OneAttempt ==
  /\ Cardinality(LiveStreams) <= 1
  /\ NewlyOpened =>
       /\ \A s \in StreamIds \ {stream} :
            streams[s].st # "live" /\ streams[s].rl # "open"
       /\ PendingTimers = {}

\* C3 witness: connect() opened the third stream while the second was still
\* live (a late event of the first had armed the timer), and destroyed it
C3_Witness ==
  /\ NewlyOpened /\ stream = 3
  /\ streams[2].st = "destroyed" /\ streams[2].rl = "closed"

\* C4: in p0, once close has run no callback calls got.stream: a reconnect
\* timer that fires afterwards neither opens a stream nor arms another timer
C4_NoOpenAfterClose ==
  stopped => (calls = 0 /\ (last = "timer" => armed = 0))

\* C4 witness: a reconnect timer fired after close, with another still
\* pending, and its connect() returned without opening anything
C4_Witness ==
  closed /\ last = "timer" /\ PendingTimers # {} /\ calls = 0

\* C5: in sc1, after the close handler has run no reconnect timer is pending,
\* no timer callback runs and no callback arms a timer
C5_CloseCancels ==
  closed => (PendingTimers = {} /\ last # "timer" /\ armed = 0)

\* C5 witness: close came during a reconnect wait (the flag is still up) and
\* a stream event was handled after it
C5_Witness == closed /\ reconnecting /\ last \in {"end", "error"}

\* C6: in sc1, with a non-empty URL and the node not closed, every loss event
\* ('end' or an 'error') is eventually followed by a got.stream call
C6_Reconnects == lossPending ~> ~lossPending

\* C6 witness: got.stream was called again, from the timer, after a loss
C6_Witness ==
  /\ last = "timer" /\ calls = 1 /\ ~lossPending /\ ~stopped
  /\ \E s \in StreamIds : streams[s].st = "lost"

\* C7: with a missing or empty URL the controller keeps retrying: after the
\* failed build a reconnect is scheduled
\* (the statement of the claim; the code breaks it)
C7_KeepsRetrying ==
  (started /\ ~closed /\ config.url \in {"absent", "empty"}) =>
     PendingTimers # {}

\* C8: in p3, reconnectDelay is within [2000, 60000] in every state, and so
\* is the delay of every timer that is pending or was just armed
C8_DelayInRange ==
  /\ baseReconnectDelay <= reconnectDelay /\ reconnectDelay <= maxReconnectDelay
  /\ \A t \in PendingTimers :
       baseReconnectDelay <= timers[t].delay /\ timers[t].delay <= maxReconnectDelay
  /\ armed # 0 => baseReconnectDelay <= armed /\ armed <= maxReconnectDelay

\* C8 witness: the backoff has reached the cap and a timer is armed with it
C8_Witness ==
  /\ reconnectDelay = maxReconnectDelay
  /\ \E t \in PendingTimers : timers[t].delay = maxReconnectDelay

\* C9: in p3, while no 'response' arrives, each delay scheduleReconnect arms
\* the timer with is at least the one it armed before, and at most 60000
C9_BackoffMonotone ==
  [][(armed' # 0 /\ failArmed # 0) =>
       (failArmed <= armed' /\ armed' <= maxReconnectDelay)]_vars

\* C9 witness: a timer callback whose startStream() threw re-armed the timer
\* with a delay that had grown past the base
C9_Witness ==
  last = "timer" /\ armed > baseReconnectDelay /\ failArmed = armed

\* C10: in p3, the reconnect scheduled by the event that ends a stream which
\* delivered a record is armed with the base delay 2000
C10_ResetAfterData == servedLoss => armed = baseReconnectDelay

\* C10 witness: such a stream, opened by a timer after earlier failures, ends
C10_Witness ==
  /\ servedLoss /\ armed = baseReconnectDelay /\ extras = 0
  /\ \A s \in 1..3 : streams[s].st = "lost"

\* a line trim() empties: it holds white space only
Blank(line) == \A i \in 1..Len(line) : line[i] \in WhiteSpace

\* the decoded values of the lines of b that are not blank and are valid JSON
RECURSIVE Decoded(_)
Decoded(b) ==
  IF b = <<>> THEN <<>>
  ELSE IF ~Blank(Head(b)) /\ JSONparse(Head(b)).ok
       THEN <<JSONparse(Head(b)).value>> \o Decoded(Tail(b))
  ELSE Decoded(Tail(b))

\* the lines of b that are not blank and are no valid JSON
Malformed(b) == {i \in 1..Len(b) : ~Blank(b[i]) /\ ~JSONparse(b[i]).ok}

Warnings == {i \in 1..Len(log) : log[i].level = "warn"}

\* C11: in sc1, within one attempt each line that is no valid JSON gives one
\* warning and no record; every valid line, also one behind such a line, is
\* sent; a 'line' callback arms no timer and leaves stream and readline open
C11_BadLineIsolated ==
  /\ Cardinality(Warnings) = Cardinality(Malformed(body))
  /\ sent = Decoded(body)
  /\ last = "line" =>
       /\ armed = 0 /\ PendingTimers = {} /\ ~reconnecting
       /\ stream # 0 /\ streams[stream].st = "live"
       /\ streams[stream].rl = "open"

\* C11 witness: a valid line was sent after a malformed one had been warned of
C11_Witness ==
  /\ last = "line" /\ Len(body) = 3 /\ Len(sent) = 2
  /\ 2 \in Malformed(body) /\ Cardinality(Warnings) = 1

\* C12: in p2, the payloads sent in one attempt are the decoded values of the
\* lines that are not blank and are valid JSON, one each, in the order of the
\* lines; every other non-blank line gives one diagnostic, a blank line none
C12_LinesInOrder ==
  /\ sent = Decoded(body)
  /\ Len(sent) + Len(log) = Cardinality({i \in 1..Len(body) : ~Blank(body[i])})

\* C12 witness: two different records around a blank line, sent in line order
C12_Witness ==
  /\ Len(body) = 3 /\ Blank(body[2]) /\ body[2] # <<>>
  /\ Len(sent) = 2 /\ sent[1] > sent[2] /\ log = <<>>

\* C13: in sc2, when the response's status is outside [200,300) the status
\* is reported and no line of its body is parsed: none is sent, none warned of
\* (the statement of the claim; the code breaks it)
C13_ErrorBodyNotParsed ==
  (status # 0 /\ ~(200 <= status /\ status < 300)) =>
     /\ \E i \in 1..Len(log) : log[i].level = "error"
     /\ sent = <<>> /\ Warnings = {}

\* the configured delay is a number: a string of decimal digits, signed or not
IntegerText(v) ==
  /\ v.t = "string" /\ v.s # <<>>
  /\ \A i \in 1..Len(v.s) : v.s[i] \in Digits \/ (i = 1 /\ v.s[i] = "-")
  /\ v.s # <<"-">>

IntegerOf(v) ==
  IF Head(v.s) = "-" THEN 0 - decimal(Tail(v.s)) ELSE decimal(v.s)

\* the decimal digits the configured delay starts with
LeadingDigits(v) ==
  IF v.t = "undefined" THEN <<>>
  ELSE SubSeq(v.s, 1,
              CHOOSE k \in 0..Len(v.s) :
                /\ \A j \in 1..k : v.s[j] \in Digits
                /\ k < Len(v.s) => v.s[k + 1] \notin Digits)

\* C14 as stated: in p1, reconnect() arms the timer with the configured delay
\* raised to the floor of 1000 when below it, and with 5000 when the delay is
\* absent or no number (the code takes 5000 below the floor as well)
C14_ClampedAtFloor ==
  \A t \in PendingTimers :
    timers[t].delay =
      IF ~IntegerText(config.reconnectDelay) THEN 5000
      ELSE IF IntegerOf(config.reconnectDelay) < 1000 THEN 1000
      ELSE IntegerOf(config.reconnectDelay)

\* C14 as amended: in p1, reconnect() arms the timer with the integer the
\* configured delay starts with when that is at least 1000, and with 5000
\* when the delay is absent, starts with no integer or with one below 1000;
\* so every delay is at least 1000
C14_DefaultBelowFloor ==
  \A t \in PendingTimers :
    /\ timers[t].delay >= 1000
    /\ timers[t].delay =
         IF LeadingDigits(config.reconnectDelay) = <<>> THEN 5000
         ELSE IF decimal(LeadingDigits(config.reconnectDelay)) < 1000 THEN 5000
         ELSE decimal(LeadingDigits(config.reconnectDelay))

\* C14 witness: a delay below the floor is configured and the timer that a
\* lost stream made reconnect() arm runs with 5000
C14_Witness ==
  /\ config.reconnectDelay = Str(<<"5", "0", "0">>)
  /\ last \in {"end", "error"} /\ armed = 5000
  /\ \E t \in PendingTimers : timers[t].delay = 5000

\* C15: in p2 (and with the same expression in sc1), the reconnect timer runs
\* with 5000 when the configured delay is absent or invalid (no number, zero,
\* negative) and else with the configured positive integer, and the delay
\* handed to setTimeout is always a positive number
\* (the statement of the claim; the code breaks it)
C15_DelayDefaulted ==
  \A t \in PendingTimers :
    /\ timers[t].delay =
         IF ~IntegerText(config.reconnectDelay) THEN 5000
         ELSE IF IntegerOf(config.reconnectDelay) <= 0 THEN 5000
         ELSE IntegerOf(config.reconnectDelay)
    /\ ~parseDelay(config.reconnectDelay).nan
    /\ parseDelay(config.reconnectDelay).n > 0

\* C16: no configuration makes an exception escape a callback: a missing or
\* malformed URL ends in a diagnostic or a scheduled reconnect (p3, where the
\* URL is parsed for the extra params; p1 breaks it in buildUrl as well)
\* (the statement of the claim; the code breaks it)
C16_NoEscape == ~fault

\* C17: in p1, a second run of the close handler raises nothing, calls
\* got.stream not, arms no timer and changes nothing: stopped stays true,
\* stream, readline and reconnect timer stay absent
C17_CloseIdempotent ==
  [][last' = "closeAgain" =>
       /\ fault' = fault /\ calls' = 0 /\ armed' = 0
       /\ stopped' /\ stream' = 0 /\ rl' = 0 /\ reconnectTimer' = 0
       /\ timers' = <<>>
       /\ <<stopped, stream, rl, reconnectTimer, timers, streams>>' =
            <<stopped, stream, rl, reconnectTimer, timers, streams>>]_vars

\* C17 witness: the handler ran again after the first run had destroyed a
\* live stream and a late event of a stream had been handled since
C17_Witness ==
  /\ last = "closeAgain" /\ extras > 0
  /\ \E s \in StreamIds : streams[s].st = "destroyed"

\* the bytes of the chunks of b, in order
RECURSIVE Flatten(_)
Flatten(b) == IF b = <<>> THEN <<>> ELSE Head(b) \o Flatten(Tail(b))

\* C18: in p3, whatever the chunks the bytes of a body arrive in, the payloads
\* sent are those sent when the same bytes arrive as one chunk
\* (the statement of the claim; the code breaks it)
C18_ChunkInvariant ==
  sent = IF trim(Flatten(body)) # <<>> THEN <<trim(Flatten(body))>> ELSE <<>>

\* q holds the parameter p
Holds(q, p) == \E i \in 1..Len(q) : q[i] = p

\* C19: in p3, the query of the request URL holds every parameter of the base
\* URL's query and every extra parameter; for a key that is in both, the base
\* URL's parameter comes first
\* (the statement of the claim; the code breaks it)
C19_ParamsRetained ==
  request.built =>
    /\ \A i \in 1..Len(config.query) : Holds(request.query, config.query[i])
    /\ \A j \in 1..Len(config.extraParams) :
         Holds(request.query, config.extraParams[j])
    /\ \A i \in 1..Len(config.query) : \A j \in 1..Len(config.extraParams) :
         config.query[i].k = config.extraParams[j].k =>
           \E m, n \in 1..Len(request.query) :
             /\ m < n
             /\ request.query[m] = config.query[i]
             /\ request.query[n] = config.extraParams[j]

\* C20: in sc1, buildHeaders throws nothing, and when the extra-headers string
\* does not decode, or decodes to something that is no mapping, it warns and
\* returns the token's Authorization header alone (nothing without a token)
\* (the statement of the claim; the code breaks it)
C20_HeadersDegrade ==
  request.built =>
    /\ ~fault
    /\ (/\ truthyText(config.headers)
        /\ HeaderDocs[config.headers.s].type # "object") =>
         /\ Warnings # {}
         /\ DOMAIN request.headers =
              IF truthyText(config.token) THEN {"Authorization"} ELSE {}
         /\ truthyText(config.token) =>
              request.headers["Authorization"] = <<"Bearer", config.token.s>>

\* C21: in p0, one failed attempt schedules at most one reconnect: also when
\* one failure runs several of the loss handlers, at most one reconnect timer
\* is pending and at most one stream is live
\* (the statement of the claim; the code breaks it)
C21_OneReconnectPerFailure ==
  Len(timers) <= 1 /\ Cardinality(LiveStreams) <= 1

\* C22: in sc1, at most one reconnect timer is pending in every state, and
\* while the node is not stopped reconnecting is true exactly when a timer is
\* pending
C22_FlagIffTimer ==
  /\ Len(timers) <= 1
  /\ ~stopped => (reconnecting <=> Len(timers) = 1)

\* C22 witness: after a failure that ran several handlers, the timer fired,
\* got.stream threw and the callback armed the timer again
C22_Witness ==
  /\ ~stopped /\ extras >= 1 /\ last = "timer" /\ armed # 0
  /\ reconnecting /\ Len(timers) = 1

\* C23: in p3, at most one reconnect timer is pending in every state, and
\* while one is pending no stream is open: the variable stream is null and no
\* stream that got.stream returned is live
C23_TimerMeansNoStream ==
  /\ Len(timers) <= 1
  /\ Len(timers) = 1 => (stream = 0 /\ LiveStreams = {})

\* C23 witness: a late event of the first stream came while the second was
\* open; scheduleReconnect destroyed the second and armed the timer
C23_Witness ==
  /\ Len(timers) = 1 /\ stream = 0 /\ last \in {"end", "error"}
  /\ streams[1].st = "lost" /\ streams[2].st = "destroyed"

\* C24: in p1, stopped never returns to false once set, and in every state
\* after the close handler has run the stream, the readline interface and
\* the reconnect timer are absent (the variables are null, nothing is live,
\* open or pending), also after late 'end' or 'error' events of old streams
C24_StoppedForGood ==
  [][/\ stopped => stopped'
     /\ closed' =>
          /\ stopped'
          /\ stream' = 0 /\ rl' = 0 /\ reconnectTimer' = 0
          /\ timers' = <<>>
          /\ \A s \in StreamIds :
               streams'[s].st # "live" /\ streams'[s].rl # "open"]_vars

\* C24 witness: close came while a stream was open, and afterwards a loss
\* event of that stream was handled
C24_Witness ==
  /\ closed /\ stopped /\ last \in {"end", "error"} /\ extras >= 1
  /\ \E s \in StreamIds : streams[s].st = "destroyed"

====
